---- MODULE Spec2Model ----
(***************************************************************************)
(* Cutout preparation pipeline of atlite (atlite/preparation.py):          *)
(* cutout_prepare, cutout_do_task, cutout_produce_specific_dataseries and  *)
(* _prepare_gebco_height, modelled as a state machine over the cutout      *)
(* object, its output directory and the worker pool.                       *)
(***************************************************************************)
EXTENDS Integers, Sequences, FiniteSets, TLC

(* ------------------------------ bounds --------------------------------- *)
NumMonths == 2      \* length of the cutout's year-month index
MaxSeries == 1      \* largest number of series in weather_data_config
MaxProcs == 2       \* largest worker count (nprocesses)
MaxFaults == 1      \* most tasks the environment lets fail in one call

YearMonths == 1..NumMonths
yearmonths == [k \in 1..NumMonths |-> k]

(* ---------------------------- file names ------------------------------- *)
\* A file name is a sequence of character tokens.
DigitChar(d) ==
    CASE d = 0 -> "0" [] d = 1 -> "1" [] d = 2 -> "2" [] d = 3 -> "3"
      [] d = 4 -> "4" [] d = 5 -> "5" [] d = 6 -> "6" [] d = 7 -> "7"
      [] d = 8 -> "8" [] OTHER -> "9"

RECURSIVE Format(_)
\* "{}".format(i) for a non-negative integer: its decimal digits
Format(i) == IF i < 10 THEN <<DigitChar(i)>>
             ELSE Format(i \div 10) \o <<DigitChar(i % 10)>>

\* cutout.datasetfn(): the primary metadata file
datasetfn_meta == <<"meta", ".", "nc">>

\* cutout.datasetfn(ym): the canonical per-month file
datasetfn(ym) == <<"ym">> \o Format(ym) \o <<".", "nc">>

\* index of the last "." of a name (0 when there is none)
LastDot(name) ==
    LET dots == {k \in 1..Len(name) : name[k] = "."}
    IN  IF dots = {} THEN 0 ELSE CHOOSE k \in dots : \A j \in dots : j <= k

\* os.path.splitext: <<base, ext>>, split at the last dot
splitext(name) ==
    LET d == LastDot(name)
    IN  IF d = 0 THEN <<name, <<>>>>
        ELSE <<SubSeq(name, 1, d - 1), SubSeq(name, d, Len(name))>>

\* index the closure of line 106 sees when the comprehension of line 109
\* calls it: the loop variable of the iteration in progress
ClosureIndexLate(i, n) == n - 1
ClosureIndex(i, n) == i

datasetfn_with_id(ym, i) ==
    LET se == splitext(datasetfn(ym))
    IN  se[1] \o <<"-">> \o Format(i) \o se[2]

\* glob(base + "-*" + ext): does name match
GlobMatch(name, base, ext) ==
    LET p == base \o <<"-">>
    IN  /\ Len(name) >= Len(p) + Len(ext)
        /\ SubSeq(name, 1, Len(p)) = p
        /\ SubSeq(name, Len(name) - Len(ext) + 1, Len(name)) = ext

(* ---------------------------- exceptions ------------------------------- *)
\* An exception value: its class and the length of its args tuple.
NoExc == [type |-> "none", nargs |-> 0]
Exc(t, n) == [type |-> t, nargs |-> n]

(* ----------------------- series and task descriptors ------------------- *)
\* The task-generating functions a series of weather_data_config may hold.
\*   monthly  one task per requested year-month, reading an input file
\*   first    one task that yields the first requested year-month only
\*   split    two tasks, each for all requested year-months
\*   empty    one task whose extraction function returns None
\*   notasks  no task
TasksFuncs == {"monthly", "first", "split", "empty", "notasks"}

\* What the environment makes of one execution of a task:
\*   ok       the input file opens and the extraction function returns
\*   raise    the extraction function raises Exception("...")
\*   bare     the extraction function raises Exception()
\*   openfail the input file cannot be opened
Outcomes == {"ok", "raise", "bare", "openfail"}

VarNames == <<"wind", "influx", "temperature", "runoff", "albedo",
              "roughness", "pressure", "humidity">>
VarOf(s, j) == VarNames[((2 * (s - 1) + j - 1) % Len(VarNames)) + 1]

\* A task descriptor as a tasks_func returns it: the keys prepare_func,
\* (fn, engine) when hasfn, and the keyword arguments of prepare_func.
TaskDesc(pf, hasfn, yms, var) ==
    [prepare_func |-> pf, hasfn |-> hasfn, yms |-> yms, var |-> var,
     keys |-> {"prepare_func", "yearmonths"}
              \cup (IF hasfn THEN {"fn", "engine"} ELSE {})]

\* tasks_func(xs=xs, ys=ys, yearmonths=yms, **series) of series number s
tasks_func(kind, s, yms) ==
    CASE kind = "monthly" ->
           [k \in 1..Len(yms) |-> TaskDesc("data", TRUE, <<yms[k]>>, VarOf(s, 1))]
      [] kind = "first"    -> <<TaskDesc("first", FALSE, yms, VarOf(s, 1))>>
      [] kind = "split"    -> <<TaskDesc("data", TRUE, yms, VarOf(s, 1)),
                                TaskDesc("data", FALSE, yms, VarOf(s, 2))>>
      [] kind = "empty"    -> <<TaskDesc("none", TRUE, yms, VarOf(s, 1))>>
      [] OTHER             -> <<>>

\* A series descriptor of weather_data_config.
Series(kind) == [tasks_func |-> kind, keys |-> {"tasks_func", "module"}]

\* dict.copy(), lines 40, 101 and 150: a dict of its own with the keys of d;
\* without it the name is bound to d itself
Alias(d) == [keys |-> d.keys, own |-> FALSE]
copy(d) == [keys |-> d.keys, own |-> TRUE]

\* lines 101-103 and 150-152: the working copy of a series gets meta_attrs
\* and loses tasks_func.  kwargs: the keys passed on to tasks_func; stored:
\* the keys of the series of weather_data_config afterwards
SeriesKwargs(series) ==
    LET c == copy(series)
        k == (c.keys \cup {"meta_attrs"}) \ {"tasks_func"}
    IN  [kwargs |-> k, stored |-> IF c.own THEN series.keys ELSE k]

\* weather_data_config after the expansion of the series numbered in S
StoredConfig(cfg, S) ==
    [s \in 1..Len(cfg) |->
        IF s \in S THEN [cfg[s] EXCEPT !.keys = SeriesKwargs(cfg[s]).stored]
        ELSE cfg[s]]

RECURSIVE SeqsUpTo(_, _)
SeqsUpTo(S, n) ==
    IF n = 0 THEN {<<>>}
    ELSE LET shorter == SeqsUpTo(S, n - 1)
         IN  shorter \cup {Append(q, x) : q \in {r \in shorter : Len(r) = n - 1}, x \in S}

Configs == {q \in SeqsUpTo({Series(k) : k \in TasksFuncs}, MaxSeries) : Len(q) >= 1}

(* ------------------------------ state ---------------------------------- *)
VARIABLES
    weather_data_config, \* cutout.weather_data_config: sequence of series
    prepared,            \* cutout.prepared
    meta_height,         \* cutout.meta['height']: "none", "resampled", "original"
    dir_exists,          \* os.path.isdir(cutout_dir)
    files,               \* the files of cutout_dir: name -> [vars, stale, by, writers]
    pc,                  \* position of the caller / of cutout_prepare
    op,                  \* operation in progress or last ended
    args,                \* [nprocesses, gebco_height] of the call in progress, and
                         \* replaces: it began on a prepared cutout with a directory
    exc,                 \* exception that reached the caller, or NoExc
    stage,               \* where the exception was raised
    tasks,               \* the flat task list of cutout_prepare
    tstate,              \* per task: executor state inside the pool
    pool,                \* [alive, exc]: the Pool and the first error it holds
    month,               \* merge stage: position in yearmonths
    fns,                 \* merge stage: partial files globbed for the month
    log,                 \* [warnings, tool, raster]: warnings logged by this
                         \* call, what became of its call of gdalwarp and the
                         \* raster it opened
    preview              \* result of cutout_produce_specific_dataseries

vars == <<weather_data_config, prepared, meta_height, dir_exists, files, pc, op,
          args, exc, stage, tasks, tstate, pool, month, fns, log, preview>>

cutout == <<weather_data_config, prepared, meta_height>>
disk == <<dir_exists, files>>
poolvars == <<tasks, tstate, pool>>
mergevars == <<month, fns>>

NoFiles == [n \in {} |-> 0]
NoArgs == [nprocesses |-> 1, gebco_height |-> FALSE, replaces |-> FALSE]
NoLog == [warnings |-> 0, tool |-> "none", raster |-> "none"]
NoPreview == [returned |-> FALSE, vars |-> {}, ym |-> 0, series |-> 0,
              env |-> "none"]
NoPool == [alive |-> FALSE, exc |-> NoExc]

\* ds.to_netcdf(name): create or replace one file of the directory.  stale
\* tells a file written by an earlier call from one written by the present
\* call; writers are the tasks of the present call that wrote the file.
WriteFile(fs, name, vs, by, who) ==
    LET old == IF name \in DOMAIN fs /\ ~fs[name].stale
               THEN fs[name].writers ELSE {}
    IN  [n \in DOMAIN fs \cup {name} |->
            IF n = name
            THEN [vars |-> vs, stale |-> FALSE, by |-> by, writers |-> old \cup who]
            ELSE fs[n]]

\* what a new call finds: every file is the work of an earlier call
Aged(fs) == [n \in DOMAIN fs |-> [fs[n] EXCEPT !.stale = TRUE, !.writers = {}]]

\* os.unlink(name)
UnlinkNothing(fs, name) == fs
Unlink(fs, name) == [n \in DOMAIN fs \ {name} |-> fs[n]]

\* What an earlier session may have left at the cutout's path (the cache
\* path is kept between sessions): a file that is none of the pipeline's and
\* a partial file of the first year-month.
Leftover ==
    LET old(v) == [vars |-> {v}, stale |-> TRUE, by |-> "other", writers |-> {}]
    IN  (<<"notes", ".", "txt">> :> old("none"))
        @@ (datasetfn_with_id(1, 0) :> old("old"))

\* A cutout is created unprepared; its directory may be there already.
Init ==
    /\ weather_data_config \in Configs
    /\ prepared = FALSE
    /\ meta_height = "none"
    /\ \/ dir_exists = FALSE /\ files = NoFiles
       \/ dir_exists = TRUE /\ files = Leftover
    /\ pc = "idle"
    /\ op = "none"
    /\ args = NoArgs
    /\ exc = NoExc
    /\ stage = "none"
    /\ tasks = <<>>
    /\ tstate = <<>>
    /\ pool = NoPool
    /\ month = 0
    /\ fns = {}
    /\ log = NoLog
    /\ preview = NoPreview

Idle == pc = "idle"

(* --------------------------- cutout_prepare ---------------------------- *)
\* Line 76 names ArgumentError, which the module neither defines nor imports
\* (lines 22-37): evaluating the raise statement raises NameError.
PreconditionError == Exc("NameError", 1)

\* lines 74-85: the call, the precondition check and the reading of the
\* cutout's coordinates
cutout_prepare_reset_first(ow, np, gh) ==
    /\ Idle
    /\ op' = "prepare"
    /\ args' = [nprocesses |-> np, gebco_height |-> gh,
                 replaces |-> prepared /\ dir_exists]
    /\ IF prepared /\ ~ow
       THEN /\ pc' = "raised"
            /\ exc' = PreconditionError
            /\ stage' = "precondition"
            /\ UNCHANGED disk
       ELSE /\ pc' = IF gh THEN "gebco" ELSE "reset"
            /\ exc' = NoExc
            /\ stage' = "none"
            /\ dir_exists' = TRUE
            /\ files' = IF dir_exists THEN NoFiles ELSE files
    /\ UNCHANGED <<cutout, poolvars, mergevars, log, preview>>
cutout_prepare(ow, np, gh) ==
    /\ Idle
    /\ op' = "prepare"
    /\ args' = [nprocesses |-> np, gebco_height |-> gh,
                 replaces |-> prepared /\ dir_exists]
    /\ IF prepared /\ ~ow
       THEN /\ pc' = "raised"
            /\ exc' = PreconditionError
            /\ stage' = "precondition"
       ELSE /\ pc' = IF gh THEN "gebco" ELSE "reset"
            /\ exc' = NoExc
            /\ stage' = "none"
    /\ UNCHANGED <<cutout, disk, poolvars, mergevars, log, preview>>

(* ------------------------ _prepare_gebco_height ------------------------ *)
\* lines 220-230: what the call of gdalwarp does with the three outcomes the
\* environment can produce: "ok" (exit 0), "nonzero" (exit code not 0: the
\* assert of line 226 fails, and AssertionError is no OSError), "missing"
\* (subprocess.call raises OSError).  The result: the exception raised, the
\* raster opened at line 232 and the warnings logged.
GdalwarpCatchAll(outcome) ==
    CASE outcome = "ok"      -> [exc |-> NoExc, raster |-> "resampled", warnings |-> 0]
      [] OTHER               -> [exc |-> NoExc, raster |-> "original", warnings |-> 1]
Gdalwarp(outcome) ==
    CASE outcome = "ok"      -> [exc |-> NoExc, raster |-> "resampled", warnings |-> 0]
      [] outcome = "nonzero" -> [exc |-> Exc("AssertionError", 1), raster |-> "none", warnings |-> 0]
      [] OTHER               -> [exc |-> NoExc, raster |-> "original", warnings |-> 1]

\* lines 86-88 with lines 207-237
prepare_gebco_height(outcome) ==
    /\ pc = "gebco"
    /\ LET r == Gdalwarp(outcome)
       IN  /\ log' = [log EXCEPT !.warnings = @ + r.warnings, !.tool = outcome,
                                 !.raster = r.raster]
           /\ IF r.exc # NoExc
              THEN /\ pc' = "raised"
                   /\ exc' = r.exc
                   /\ stage' = "height"
                   /\ UNCHANGED meta_height
              ELSE /\ pc' = "reset"
                   /\ meta_height' = r.raster
                   /\ UNCHANGED <<exc, stage>>
    /\ UNCHANGED <<weather_data_config, prepared, disk, op, args,
                   poolvars, mergevars, preview>>

(* ----------------------- directory reset, metadata --------------------- *)
\* lines 91-95: the files of cutout_dir after rmtree (when it exists) and mkdir
ResetDirKeep(exists, fs) == fs
ResetDir(exists, fs) == IF exists THEN NoFiles ELSE fs

MetaVars == IF meta_height = "none" THEN {"coords"} ELSE {"coords", "height"}

\* lines 90-96
ResetAndWriteMeta ==
    /\ pc = "reset"
    /\ dir_exists' = TRUE
    /\ files' = WriteFile(ResetDir(dir_exists, files), datasetfn_meta,
                          MetaVars, "meta", {})
    /\ pc' = "expand"
    /\ UNCHANGED <<cutout, op, args, exc, stage, poolvars, mergevars,
                   log, preview>>

(* ----------------------------- task expansion -------------------------- *)
RECURSIVE FlatTasks(_, _, _)
\* lines 99-104: tasks += tasks_func(...) over the series, in order
FlatTasks(cfg, s, yms) ==
    IF s > Len(cfg) THEN <<>>
    ELSE tasks_func(cfg[s].tasks_func, s, yms) \o FlatTasks(cfg, s + 1, yms)

\* lines 105-109: t['datasetfns'] of the task at position i (from 0) of n
Datasetfns(i, n) ==
    [ym \in YearMonths |-> datasetfn_with_id(ym, ClosureIndex(i, n))]

QueuedTask == [st |-> "queued", ds |-> "absent", pending |-> <<>>,
               traces |-> 0, wrote |-> {}, exc |-> NoExc, logged |-> 0,
               calls |-> 0, env |-> "none"]

\* lines 98-117
Expand ==
    /\ pc = "expand"
    /\ LET flat == FlatTasks(weather_data_config, 1, yearmonths)
           n == Len(flat)
       IN  /\ tasks' = [k \in 1..n |->
                          [desc |-> [flat[k] EXCEPT !.keys = @ \cup {"datasetfns"}],
                           datasetfns |-> Datasetfns(k - 1, n)]]
           /\ tstate' = [k \in 1..n |-> QueuedTask]
    /\ weather_data_config' =
          StoredConfig(weather_data_config, 1..Len(weather_data_config))
    /\ pool' = [alive |-> TRUE, exc |-> NoExc]
    /\ pc' = "dispatch"
    /\ UNCHANGED <<prepared, meta_height, disk, op, args, exc, stage,
                   mergevars, log, preview>>

(* ----------------------------- cutout_do_task -------------------------- *)
\* xr.open_dataset(fn, engine=engine), line 49
OpenDataset(desc, env) ==
    IF env = "openfail" THEN Exc("IOError", 2) ELSE NoExc

\* prepare_func(**task), line 50: None, a list of (yearmonth, variable)
\* pairs, or an exception
PrepareFunc(desc, env) ==
    CASE env = "raise" ->
           [exc |-> Exc("Exception", 1), none |-> FALSE, items |-> <<>>]
      [] env = "bare" ->
           [exc |-> Exc("Exception", 0), none |-> FALSE, items |-> <<>>]
      [] desc.prepare_func = "data" ->
           [exc |-> NoExc, none |-> FALSE,
            items |-> [k \in 1..Len(desc.yms) |-> <<desc.yms[k], desc.var>>]]
      [] desc.prepare_func = "first" ->
           [exc |-> NoExc, none |-> FALSE,
            items |-> IF desc.yms = <<>> THEN <<>>
                      ELSE <<<<desc.yms[1], desc.var>>>>]
      [] OTHER ->
           [exc |-> NoExc, none |-> TRUE, items |-> <<>>]

\* lines 51-52: None stands for no output group
NoneKept(data) == data
NoneToEmpty(data) ==
    IF data.none THEN [data EXCEPT !.none = FALSE, !.items = <<>>] ELSE data

\* lines 66-69: the handler logs e.args[0] and re-raises; e.args[0] of an
\* exception without arguments raises IndexError inside the handler
Handler(e) == IF e.nargs = 0 THEN Exc("IndexError", 1) ELSE e
Logged(e) == IF e.nargs = 0 THEN 0 ELSE 1

\* lines 40-53: up to the first write.  [exc, ds, items]: the exception
\* that left the try block (before the handler), the state of the input
\* dataset and the output groups
Opening(desc, env) ==
    IF desc.hasfn /\ OpenDataset(desc, env) # NoExc
    THEN [exc |-> OpenDataset(desc, env), ds |-> "absent", items |-> <<>>]
    ELSE LET ds == IF desc.hasfn THEN "open" ELSE "absent"
             r == PrepareFunc(desc, env)
             data == NoneToEmpty(r)
         IN  IF r.exc # NoExc
             THEN [exc |-> r.exc, ds |-> ds, items |-> <<>>]
             ELSE IF data.none
             THEN [exc |-> Exc("TypeError", 1), ds |-> ds, items |-> <<>>]
             ELSE [exc |-> NoExc, ds |-> ds, items |-> data.items]

\* lines 70-72: the finally clause
FinallySkipped(ds) == ds
Finally(ds) == IF ds = "open" THEN "closed" ELSE ds

(* ------------------ the pool: cutout_do_task in a worker --------------- *)
Running == {k \in 1..Len(tstate) : tstate[k].st = "running"}
QueuedOrDone == {k \in 1..Len(tstate) : tstate[k].st \in {"queued", "ok"}}
Queued == {k \in 1..Len(tstate) : tstate[k].st = "queued"}
Failed == {k \in 1..Len(tstate) : tstate[k].st = "failed"}

\* the pool keeps the first error a task reports
FirstError(p, e) == IF p.exc = NoExc THEN [p EXCEPT !.exc = e] ELSE p

\* lines 40-53, and 66-72 when the open or the extraction raises or when
\* there is nothing to write: a free worker takes the next queued task, in
\* submission order
TaskStart(i, env) ==
    /\ pool.alive
    /\ env = "openfail" => tasks[i].desc.hasfn
    /\ env # "ok" => Cardinality(Failed) < MaxFaults
    /\ i \in Queued
    /\ \A j \in Queued : i <= j
    /\ Cardinality(Running) < args.nprocesses
    /\ LET o == Opening(tasks[i].desc, env)
       IN  IF o.exc # NoExc
           THEN /\ tstate' = [tstate EXCEPT ![i] =
                       [@ EXCEPT !.st = "failed", !.ds = Finally(o.ds),
                                 !.exc = Handler(o.exc), !.logged = Logged(o.exc),
                                 !.calls = @ + 1, !.env = env]]
                /\ pool' = FirstError(pool, Handler(o.exc))
           ELSE /\ tstate' = [tstate EXCEPT ![i] =
                       IF o.items = <<>>
                       THEN [@ EXCEPT !.st = "ok", !.ds = Finally(o.ds),
                                      !.calls = @ + 1, !.env = env]
                       ELSE [@ EXCEPT !.st = "running", !.ds = o.ds,
                                      !.pending = o.items, !.calls = @ + 1,
                                      !.env = env]]
                /\ UNCHANGED pool
    /\ UNCHANGED <<cutout, disk, pc, op, args, exc, stage, tasks,
                   mergevars, log, preview>>

\* lines 55-63: one (yearmonth, ds) pair is written and traced; a
\* yearmonth that is no key of datasetfns raises KeyError.  After the last
\* pair the finally clause closes the dataset and the task returns.
TaskWrite(i) ==
    /\ pool.alive
    /\ i \in Running
    /\ LET item == Head(tstate[i].pending)
           dfs == tasks[i].datasetfns
       IN  IF item[1] \in DOMAIN dfs
           THEN /\ files' = WriteFile(files, dfs[item[1]], {item[2]},
                                      "task", {i})
                /\ tstate' = [tstate EXCEPT ![i] =
                       [@ EXCEPT !.pending = Tail(@), !.traces = @ + 1,
                                 !.wrote = @ \cup {dfs[item[1]]},
                                 !.st = IF Len(tstate[i].pending) = 1
                                        THEN "ok" ELSE @,
                                 !.ds = IF Len(tstate[i].pending) = 1
                                        THEN Finally(@) ELSE @]]
                /\ UNCHANGED pool
           ELSE /\ tstate' = [tstate EXCEPT ![i] =
                       [@ EXCEPT !.st = "failed", !.ds = Finally(@),
                                 !.exc = Exc("KeyError", 1), !.logged = 1]]
                /\ pool' = FirstError(pool, Exc("KeyError", 1))
                /\ UNCHANGED files
    /\ UNCHANGED <<cutout, dir_exists, pc, op, args, exc, stage, tasks,
                   mergevars, log, preview>>

\* lines 119, 127: pool.map returns when every task has returned
MapReturnEarly ==
    /\ pc = "dispatch"
    /\ pool.exc = NoExc
    /\ pool' = [pool EXCEPT !.alive = FALSE]
    /\ pc' = "merge"
    /\ month' = 1
    /\ UNCHANGED <<cutout, disk, op, args, exc, stage, tasks, tstate,
                   fns, log, preview>>
MapReturn ==
    /\ pc = "dispatch"
    /\ \A k \in 1..Len(tstate) : tstate[k].st = "ok"
    /\ pool' = [pool EXCEPT !.alive = FALSE]
    /\ pc' = "merge"
    /\ month' = 1
    /\ UNCHANGED <<cutout, disk, op, args, exc, stage, tasks, tstate,
                   fns, log, preview>>

\* lines 119-120: pool.map raises the first error of a task: at once
\* (Python 2) or when the other tasks have ended too (Python 3)
MapRaise ==
    /\ pc = "dispatch"
    /\ pool.exc # NoExc
    /\ pc' = "terminate"
    /\ UNCHANGED <<cutout, disk, op, args, exc, stage, poolvars,
                   mergevars, log, preview>>

\* line 121: pool.terminate() stops the workers and drops the queue
PoolTerminate ==
    /\ pc = "terminate"
    /\ tstate' = [k \in 1..Len(tstate) |->
                    IF tstate[k].st = "running"
                    THEN [tstate[k] EXCEPT !.st = "killed"]
                    ELSE IF tstate[k].st = "queued"
                    THEN [tstate[k] EXCEPT !.st = "cancelled"]
                    ELSE tstate[k]]
    /\ pool' = [pool EXCEPT !.alive = FALSE]
    /\ pc' = "purge"
    /\ UNCHANGED <<cutout, disk, op, args, exc, stage, tasks,
                   mergevars, log, preview>>

\* line 125: shutil.rmtree(cutout_dir)
RmtreeSkipped(exists, fs) == [exists |-> exists, files |-> fs]
Rmtree(exists, fs) == [exists |-> FALSE, files |-> NoFiles]

\* lines 122-126: the purge, then the error reaches the caller
Purge ==
    /\ pc = "purge"
    /\ LET d == Rmtree(dir_exists, files)
       IN  /\ dir_exists' = d.exists
           /\ files' = d.files
    /\ pc' = "raised"
    /\ exc' = pool.exc
    /\ stage' = "dispatch"
    /\ UNCHANGED <<cutout, op, args, poolvars, mergevars, log, preview>>

(* ------------------------------ merge stage ---------------------------- *)
\* lines 132-133: the partial files of a canonical file name
Glob(fs, fn) ==
    LET se == splitext(fn)
    IN  {n \in DOMAIN fs : GlobMatch(n, se[1], se[2])}

\* lines 135-137: the variables of the combined dataset
MergedVarsNoOverlay(fs, names, gh) == UNION {fs[n].vars : n \in names}
MergedVars(fs, names, gh) ==
    UNION {fs[n].vars : n \in names} \cup (IF gh THEN {"height"} ELSE {})

\* lines 131-135: glob and open_mfdataset, which raises on no file
MergeOpenLenient ==
    /\ pc = "merge"
    /\ month <= NumMonths
    /\ pc' = "merge_write"
    /\ fns' = Glob(files, datasetfn(yearmonths[month]))
    /\ UNCHANGED <<cutout, disk, op, args, exc, stage, poolvars, month,
                   log, preview>>
MergeOpen ==
    /\ pc = "merge"
    /\ month <= NumMonths
    /\ LET g == Glob(files, datasetfn(yearmonths[month]))
       IN  IF g = {}
           THEN /\ pc' = "raised"
                /\ exc' = Exc("IOError", 1)
                /\ stage' = "merge"
                /\ UNCHANGED fns
           ELSE /\ pc' = "merge_write"
                /\ fns' = g
                /\ UNCHANGED <<exc, stage>>
    /\ UNCHANGED <<cutout, disk, op, args, poolvars, month, log, preview>>

\* lines 136-139: overlay and write of the compound file
MergeWrite ==
    /\ pc = "merge_write"
    /\ files' = WriteFile(files, datasetfn(yearmonths[month]),
                          MergedVars(files, fns, args.gebco_height),
                          "merge", {})
    /\ pc' = "merge_unlink"
    /\ UNCHANGED <<cutout, dir_exists, op, args, exc, stage, poolvars,
                   mergevars, log, preview>>

\* lines 135-139: open_mfdataset or to_netcdf raises for a reason of its
\* own (partial files that do not combine, the disk); the with statement
\* closes the dataset and the error leaves cutout_prepare
MergeFailPurging ==
    /\ pc = "merge_write"
    /\ dir_exists' = Rmtree(dir_exists, files).exists
    /\ files' = Rmtree(dir_exists, files).files
    /\ pc' = "raised"
    /\ exc' = Exc("IOError", 2)
    /\ stage' = "merge"
    /\ UNCHANGED <<cutout, op, args, poolvars, mergevars, log, preview>>
MergeFail ==
    /\ pc = "merge_write"
    /\ pc' = "raised"
    /\ exc' = Exc("IOError", 2)
    /\ stage' = "merge"
    /\ UNCHANGED <<cutout, disk, op, args, poolvars, mergevars, log, preview>>

\* line 141: one partial file is deleted
MergeUnlink ==
    /\ pc = "merge_unlink"
    /\ fns # {}
    /\ \E n \in fns :
          /\ files' = Unlink(files, n)
          /\ fns' = fns \ {n}
    /\ UNCHANGED <<cutout, dir_exists, pc, op, args, exc, stage,
                   poolvars, month, log, preview>>

\* line 142, and line 131 for the next month
MergeNext ==
    /\ pc = "merge_unlink"
    /\ fns = {}
    /\ month' = month + 1
    /\ pc' = "merge"
    /\ UNCHANGED <<cutout, disk, op, args, exc, stage, poolvars, fns,
                   log, preview>>

\* lines 144-145
MarkPrepared ==
    /\ pc = "merge"
    /\ month > NumMonths
    /\ prepared' = TRUE
    /\ pc' = "returned"
    /\ UNCHANGED <<weather_data_config, meta_height, disk, op, args, exc,
                   stage, poolvars, mergevars, log, preview>>

(* ---------------- cutout_produce_specific_dataseries ------------------- *)
\* line 155
OneTaskAtLeast(n) == n >= 1
OneTask(n) == n = 1

\* lines 40-49: the working copy of a task descriptor loses prepare_func,
\* datasetfns (in write mode), fn and engine and gets ds when the input
\* dataset is opened.  kwargs: the keys passed on to prepare_func; stored:
\* the keys of the caller's descriptor afterwards
TaskKwargs(desc, write_to_file, opened) ==
    LET c == copy(desc)
        popped == {"prepare_func"}
                  \cup (IF write_to_file THEN {"datasetfns"} ELSE {})
                  \cup (IF "fn" \in c.keys THEN {"fn", "engine"} ELSE {})
        k == (c.keys \ popped) \cup (IF opened THEN {"ds"} ELSE {})
    IN  [kwargs |-> k, stored |-> IF c.own THEN desc.keys ELSE k]

\* cutout_do_task(task, write_to_file=False), lines 39-72: the exception
\* that leaves it, the loaded results, the state the input dataset was in
\* when line 65 loaded them, and its state when the call is over
cutout_do_task(desc, env) ==
    LET o == Opening(desc, env)
    IN  [exc |-> IF o.exc # NoExc THEN Handler(o.exc) ELSE NoExc,
         data |-> o.items,
         loaded_from |-> o.ds,
         ds |-> Finally(o.ds),
         task |-> TaskKwargs(desc, FALSE, o.ds = "open").stored]

\* lines 147-158
cutout_produce_specific_dataseries(ym, s, env) ==
    /\ Idle
    /\ op' = "preview"
    /\ LET ts == tasks_func(weather_data_config[s].tasks_func, s, <<ym>>)
       IN  IF ~OneTask(Len(ts))
           THEN /\ pc' = "raised"
                /\ exc' = Exc("AssertionError", 0)
                /\ stage' = "preview_tasks"
                /\ preview' = [NoPreview EXCEPT !.ym = ym, !.series = s, !.env = env]
           ELSE LET r == cutout_do_task(ts[1], env)
                IN  IF ~(env = "openfail" => ts[1].hasfn)
                    THEN FALSE
                    ELSE IF r.exc # NoExc
                    THEN /\ pc' = "raised"
                         /\ exc' = r.exc
                         /\ stage' = "preview_task"
                         /\ preview' = [NoPreview EXCEPT !.ym = ym, !.series = s, !.env = env]
                    ELSE IF ~(Len(r.data) = 1 /\ r.data[1][1] = ym)
                    THEN /\ pc' = "raised"
                         /\ exc' = Exc("AssertionError", 0)
                         /\ stage' = "preview_data"
                         /\ preview' = [NoPreview EXCEPT !.ym = ym, !.series = s, !.env = env]
                    ELSE /\ pc' = "returned"
                         /\ exc' = NoExc
                         /\ stage' = "none"
                         /\ preview' = [returned |-> TRUE,
                                        vars |-> {r.data[1][2]}, ym |-> ym,
                                        series |-> s, env |-> env]
    /\ weather_data_config' = StoredConfig(weather_data_config, {s})
    /\ UNCHANGED <<prepared, meta_height, disk, args, poolvars, mergevars, log>>

(* ------------------------------ the caller ----------------------------- *)
\* the call has returned or raised: the caller goes on, and nothing of the
\* call but the cutout and the directory is left
Leave ==
    /\ pc \in {"returned", "raised"}
    /\ pc' = "idle"
    /\ op' = "none"
    /\ args' = NoArgs
    /\ exc' = NoExc
    /\ stage' = "none"
    /\ tasks' = <<>>
    /\ tstate' = <<>>
    /\ pool' = NoPool
    /\ month' = 0
    /\ fns' = {}
    /\ log' = NoLog
    /\ preview' = NoPreview
    /\ files' = Aged(files)
    /\ UNCHANGED <<cutout, dir_exists>>

(* ---------------------------- specification ---------------------------- *)
Next ==
    \/ \E ow \in BOOLEAN, np \in 1..MaxProcs, gh \in BOOLEAN : cutout_prepare(ow, np, gh)
    \/ \E outcome \in {"ok", "nonzero", "missing"} : prepare_gebco_height(outcome)
    \/ ResetAndWriteMeta
    \/ Expand
    \/ \E i \in 1..Len(tasks), env \in Outcomes : TaskStart(i, env)
    \/ \E i \in 1..Len(tasks) : TaskWrite(i)
    \/ MapReturn
    \/ MapRaise
    \/ PoolTerminate
    \/ Purge
    \/ MergeOpen
    \/ MergeWrite
    \/ MergeFail
    \/ MergeUnlink
    \/ MergeNext
    \/ MarkPrepared
    \/ \E ym \in YearMonths, s \in 1..Len(weather_data_config),
          env \in Outcomes : cutout_produce_specific_dataseries(ym, s, env)
    \/ Leave

Spec == Init /\ [][Next]_vars

(* ------------------------------- claims -------------------------------- *)
TaskIds == 1..Len(tasks)
Canonical == {datasetfn(ym) : ym \in YearMonths}
Reserved == Canonical \cup {datasetfn_meta}
Partials(fs) == UNION {Glob(fs, datasetfn(ym)) : ym \in YearMonths}
PrepareRaised == op = "prepare" /\ pc = "raised"
PrepareReturned == op = "prepare" /\ pc = "returned"

\* C1: when a task has raised during dispatch and cutout_prepare has raised
\* to its caller, the cutout directory does not exist and holds no file.
C1_Atomicity ==
    (PrepareRaised /\ Failed # {}) => (~dir_exists /\ files = NoFiles)

\* C1 witness: prepare has raised after a task failed while another task had
\* already written a partial file.
C1_Witness ==
    /\ PrepareRaised
    /\ Failed # {}
    /\ \E k \in TaskIds : tstate[k].wrote # {}

\* C2 (as claimed): every run of cutout_prepare that fails after the
\* precondition check leaves prepared false and no cutout directory.
C2_FailedRunLeavesNothing ==
    (PrepareRaised /\ stage # "precondition") => (~prepared /\ ~dir_exists)

\* C3: when cutout_prepare has returned, the files of the directory other
\* than the metadata file are exactly the canonical files of the index's
\* year-months, each written by the merge of this call, and no partial file
\* is left.
C3_Completeness ==
    PrepareReturned =>
        /\ dir_exists
        /\ DOMAIN files \ {datasetfn_meta} = Canonical
        /\ \A ym \in YearMonths : files[datasetfn(ym)].by = "merge"
        /\ Partials(files) = {}

\* C3 witness: a successful call in which two tasks wrote partial files.
C3_Witness ==
    /\ PrepareReturned
    /\ \E i, j \in TaskIds : i # j /\ tstate[i].wrote # {} /\ tstate[j].wrote # {}

\* C4: for every year-month the file names given to the tasks are pairwise
\* distinct and none is a canonical file or the metadata file; no file of
\* the directory was written by two tasks, and no canonical file and no
\* metadata file was written by a task.
C4_Disambiguation ==
    /\ \A i \in TaskIds : \A ym \in YearMonths :
          /\ tasks[i].datasetfns[ym] \notin Reserved
          /\ \A j \in 1..(i - 1) :
                tasks[i].datasetfns[ym] # tasks[j].datasetfns[ym]
    /\ \A n \in DOMAIN files :
          /\ Cardinality(files[n].writers) <= 1
          /\ files[n].by = "task" => n \notin Reserved

\* C4 witness: during dispatch two tasks have written their partial files of
\* the same year-month.
C4_Witness ==
    /\ pc = "dispatch"
    /\ \E i, j \in TaskIds : \E ym \in YearMonths :
          /\ i # j
          /\ tasks[i].datasetfns[ym] \in tstate[i].wrote
          /\ tasks[j].datasetfns[ym] \in tstate[j].wrote

\* C5: when a call of cutout_prepare that began on a prepared cutout whose
\* directory existed has returned, every file of the directory was written
\* by this call.
C5_IdempotentReset ==
    (PrepareReturned /\ args.replaces) =>
        \A n \in DOMAIN files : ~files[n].stale

\* C5 witness: such a call has returned.
C5_Witness ==
    /\ PrepareReturned
    /\ args.replaces
    /\ prepared
    /\ Canonical \subseteq DOMAIN files

\* C6 (as claimed): the precondition failure is a configuration error.
C6_ConfigurationError ==
    (PrepareRaised /\ stage = "precondition") => exc.type = "ArgumentError"

\* C6, the part the code keeps: the failing precondition check changes
\* neither the cutout nor the directory, computes no height and runs no task.
C6_NoSideEffects ==
    [][(pc = "idle" /\ stage' = "precondition") =>
          /\ pc' = "raised"
          /\ UNCHANGED <<cutout, disk, poolvars, mergevars, log>>]_vars

\* C7: a task whose extraction function returned None is over without a
\* file, a trace record or an exception, with its input dataset closed if it
\* had one; in the preview the executor returns the empty list, so that the
\* error is the caller's assertion on the results.
C7_EmptyResult ==
    /\ \A k \in TaskIds :
          (tasks[k].desc.prepare_func = "none" /\ tstate[k].env = "ok") =>
             /\ tstate[k].st = "ok"
             /\ tstate[k].wrote = {}
             /\ tstate[k].traces = 0
             /\ tstate[k].exc = NoExc
             /\ tstate[k].logged = 0
             /\ tstate[k].ds = IF tasks[k].desc.hasfn THEN "closed" ELSE "absent"
    /\ (/\ op = "preview"
        /\ weather_data_config[preview.series].tasks_func = "empty"
        /\ preview.env = "ok") =>
          (pc = "raised" /\ stage = "preview_data" /\ exc.type = "AssertionError")

\* C7 witness: a task that returned None has ended with its dataset closed
\* while the pool goes on.
C7_Witness ==
    /\ pc = "dispatch"
    /\ \E k \in TaskIds :
          /\ tasks[k].desc.prepare_func = "none"
          /\ tstate[k].env = "ok"
          /\ tstate[k].ds = "closed"

\* C8: a preview whose series yields no task or several tasks, or whose one
\* task yields no result or several, fails with an assertion; a preview that
\* returns gives the dataset of its one task; in every case the directory,
\* its files and the cutout (the prepared flag with it) are as before.
C8_SinglePreview ==
    [][(pc = "idle" /\ op' = "preview") =>
          LET s == preview'.series
              ts == tasks_func(weather_data_config[s].tasks_func, s,
                               <<preview'.ym>>)
              asserted == pc' = "raised" /\ exc'.type = "AssertionError"
          IN  /\ Len(ts) # 1 => asserted
              /\ (/\ Len(ts) = 1
                  /\ preview'.env = "ok"
                  /\ \/ PrepareFunc(ts[1], "ok").none
                     \/ Len(PrepareFunc(ts[1], "ok").items) # 1) => asserted
              /\ pc' = "returned" =>
                    /\ Len(ts) = 1
                    /\ preview'.returned
                    /\ preview'.vars = {ts[1].var}
              /\ pc' \in {"returned", "raised"}
              /\ UNCHANGED <<cutout, disk>>]_vars

\* C8 witness: a preview has returned a dataset on a prepared cutout whose
\* directory holds the compound files.
C8_Witness ==
    /\ op = "preview"
    /\ pc = "returned"
    /\ preview.returned
    /\ prepared
    /\ Canonical \subseteq DOMAIN files

\* the variables the tasks of this call produced for year-month m, and the
\* partial files they wrote for it
ProducedVars(m) ==
    {tasks[k].desc.var : k \in {j \in TaskIds :
        \E x \in 1..Len(PrepareFunc(tasks[j].desc, "ok").items) :
            PrepareFunc(tasks[j].desc, "ok").items[x][1] = m}}
WrittenPartials(m) ==
    {tasks[k].datasetfns[m] : k \in {j \in TaskIds :
        tasks[j].datasetfns[m] \in tstate[j].wrote}}
InMerge ==
    /\ op = "prepare"
    /\ \/ pc \in {"merge", "merge_write", "merge_unlink", "returned"}
       \/ pc = "raised" /\ stage = "merge"

\* C9: in the merge stage the compound file of a merged year-month holds
\* the variables of all its partial files, and the height field exactly when
\* the overlay is enabled; no partial file of a year-month is deleted before
\* its compound file is written, and all are deleted once it is merged.
C9_MergeOverlay ==
    InMerge => \A m \in YearMonths :
        LET written == m < month \/ (m = month /\ pc = "merge_unlink")
        IN  /\ written =>
                /\ datasetfn(m) \in DOMAIN files
                /\ files[datasetfn(m)].vars =
                      ProducedVars(m) \cup
                      (IF args.gebco_height THEN {"height"} ELSE {})
            /\ ~written => WrittenPartials(m) \subseteq DOMAIN files
            /\ m < month => WrittenPartials(m) \cap DOMAIN files = {}

\* C9 witness: with the overlay enabled, a year-month that had two partial
\* files with different variables has been merged.
C9_Witness ==
    /\ InMerge
    /\ args.gebco_height
    /\ month > 1
    /\ Cardinality(WrittenPartials(1)) = 2
    /\ Cardinality(ProducedVars(1)) = 2
    /\ "height" \in files[datasetfn(1)].vars

\* C10: when gdalwarp cannot be started the height step does not raise,
\* has logged one warning and takes the height from the original raster;
\* when gdalwarp exits non-zero the call has raised AssertionError, without
\* warning and without opening a raster.
C10_ToolMissing ==
    /\ log.tool = "missing" =>
          /\ pc # "gebco"
          /\ stage # "height"
          /\ log.warnings = 1
          /\ log.raster = "original"
          /\ meta_height = "original"
    /\ log.tool = "nonzero" =>
          /\ PrepareRaised
          /\ stage = "height"
          /\ exc.type = "AssertionError"
          /\ log.warnings = 0
          /\ log.raster = "none"

\* C10 witness: the tool was missing and the call went on to return.
C10_Witness ==
    /\ log.tool = "missing"
    /\ PrepareReturned
    /\ meta_height = "original"

\* C11 (as claimed): once a task has raised, the pool's work is ended without
\* waiting for the other tasks: no queued task is started after the failure.
C11_FailFast ==
    [][Failed # {} =>
          \A k \in Queued :
              k \in DOMAIN tstate' => tstate'[k].st \in {"queued", "cancelled"}]_vars

\* C11, the part the code keeps: when the error of the dispatch reaches the
\* caller the pool is down, no task is running or queued, the directory is
\* purged and the error is the first one a task reported.
C11_PurgeLast ==
    (PrepareRaised /\ stage = "dispatch") =>
        /\ ~pool.alive
        /\ Running = {} /\ Queued = {}
        /\ ~dir_exists /\ files = NoFiles
        /\ exc = pool.exc
        /\ \E k \in Failed : tstate[k].exc = exc

\* the exception the try block of cutout_do_task raised in task k, before
\* the handler
Original(k) == Opening(tasks[k].desc, tstate[k].env).exc

\* C12 (as claimed): the exception that leaves cutout_do_task is the one the
\* extraction function (or the open of the input dataset) raised, whatever
\* its arguments, and it was logged once.
C12_ReraisedUnchanged ==
    /\ \A k \in Failed : tstate[k].exc = Original(k) /\ tstate[k].logged = 1
    /\ (op = "preview" /\ stage = "preview_task") =>
          LET s == preview.series
              ts == tasks_func(weather_data_config[s].tasks_func, s,
                               <<preview.ym>>)
          IN  exc = Opening(ts[1], preview.env).exc

\* C12, the part the code keeps: an exception that has arguments is logged
\* once and leaves cutout_do_task unchanged.
C12_ReraisedWithArgs ==
    \A k \in Failed :
        Original(k).nargs > 0 => (tstate[k].exc = Original(k) /\ tstate[k].logged = 1)

\* the one task of the preview in progress, when its series yields one
PreviewTasks ==
    tasks_func(weather_data_config[preview.series].tasks_func, preview.series,
               <<preview.ym>>)

\* the state an input dataset must be in when cutout_do_task is over
Scoped(desc, env) ==
    IF desc.hasfn /\ env # "openfail" THEN "closed" ELSE "absent"

\* C13: when cutout_do_task is over (a task of the pool has returned or
\* raised, or the executor of the preview has), an input dataset it opened is
\* closed: after the writes, after an empty result and after an exception;
\* the results of the preview were loaded while the dataset was still open.
C13_ScopedDataset ==
    /\ \A k \in TaskIds :
          tstate[k].st \in {"ok", "failed"} =>
              tstate[k].ds = Scoped(tasks[k].desc, tstate[k].env)
    /\ (op = "preview" /\ Len(PreviewTasks) = 1) =>
          LET r == cutout_do_task(PreviewTasks[1], preview.env)
          IN  /\ r.ds = Scoped(PreviewTasks[1], preview.env)
              /\ preview.returned => r.loaded_from # "closed"

\* C13 witness: in one dispatch a task that read an input dataset has
\* raised and another has written its file and returned, both with the
\* dataset closed.
C13_Witness ==
    /\ pc = "dispatch"
    /\ \E k \in Failed : tstate[k].ds = "closed"
    /\ \E j \in TaskIds :
          tstate[j].st = "ok" /\ tstate[j].wrote # {} /\ tstate[j].ds = "closed"

\* the compound file of year-month m is there, written by the merge of the
\* call in progress
Merged(fs, m) ==
    /\ datasetfn(m) \in DOMAIN fs
    /\ fs[datasetfn(m)].by = "merge"
    /\ ~fs[datasetfn(m)].stale
Merging == op = "prepare" /\ pc \in {"merge", "merge_write", "merge_unlink"}

\* C14: a task begins to execute only when the metadata file of this call is
\* written; no step of the merge stage is taken while a task is executing or
\* queued; the compound files are written one at a time in the order of the
\* index, each after the partial files of the month before are deleted; and
\* prepared is set, and the call returns, only when the compound file of
\* every year-month is written.
C14_PhaseOrdering ==
    [][/\ (\E k \in DOMAIN tstate \cap DOMAIN tstate' :
               tstate'[k].calls > tstate[k].calls) =>
             /\ datasetfn_meta \in DOMAIN files
             /\ files[datasetfn_meta].by = "meta"
             /\ ~files[datasetfn_meta].stale
       /\ Merging =>
             /\ Running = {} /\ Queued = {}
             /\ \A k \in TaskIds : tstate[k].st = "ok"
       /\ \A m \in YearMonths :
             (Merged(files', m) /\ ~Merged(files, m)) =>
                 /\ m = month
                 /\ \A j \in YearMonths : Merged(files, j) <=> j < m
                 /\ \A j \in YearMonths : j < m => Glob(files, datasetfn(j)) = {}
       /\ (prepared' # prepared \/ (op = "prepare" /\ pc' = "returned")) =>
             /\ prepared'
             /\ month > NumMonths
             /\ \A m \in YearMonths :
                   Merged(files, m) /\ Glob(files, datasetfn(m)) = {}]_vars

\* C14 witness: the second year-month is about to be merged after several
\* tasks have run and the first year-month is merged.
C14_Witness ==
    /\ Merging
    /\ pc = "merge_write"
    /\ month = 2
    /\ Merged(files, 1)
    /\ Cardinality(TaskIds) >= 2

\* the partial files the tasks of this call wrote for year-month m are all
\* on disk as the tasks wrote them
PartialsKept(fs, m) ==
    \A n \in WrittenPartials(m) :
        n \in DOMAIN fs /\ fs[n].by = "task" /\ ~fs[n].stale

\* C15: the step by which the merge of year-month k raises changes neither
\* the directory nor the cutout and ends the call with the error; at that
\* point the directory exists with the metadata file, the compound files of
\* the year-months before k and the partial files of k and of the later
\* year-months; and no step of a call of cutout_prepare but its return
\* changes prepared.
C15_MergeFailureKeeps ==
    [][/\ (stage' = "merge" /\ stage # "merge") =>
             /\ Merging
             /\ pc' = "raised"
             /\ exc' # NoExc
             /\ UNCHANGED <<cutout, disk, month>>
             /\ dir_exists
             /\ datasetfn_meta \in DOMAIN files
             /\ \A m \in YearMonths :
                   /\ m < month => Merged(files, m)
                   /\ m >= month => PartialsKept(files, m)
       /\ (op = "prepare" /\ pc' # "returned") => prepared' = prepared]_vars

\* C15 witness: the merge of the second year-month has raised; the compound
\* file of the first and the partial files of the second are on disk.
C15_Witness ==
    /\ PrepareRaised
    /\ stage = "merge"
    /\ month = 2
    /\ dir_exists
    /\ Merged(files, 1)
    /\ WrittenPartials(2) # {}
    /\ PartialsKept(files, 2)

\* C16: with the height requested, the call and the height step leave the
\* directory, its files, the prepared flag and the task list as they were;
\* the step by which a non-zero exit of the tool raises ends the call with
\* AssertionError, with no task expanded or run, the height of the cutout's
\* metadata unchanged and no directory created.
C16_HeightBeforeDirectory ==
    [][/\ ((pc = "idle" /\ pc' = "gebco") \/ pc = "gebco") =>
             /\ UNCHANGED <<prepared, disk, poolvars>>
             /\ tasks = <<>> /\ tstate = <<>> /\ ~pool.alive
       /\ (pc = "gebco" /\ log'.tool = "nonzero") =>
             /\ pc' = "raised"
             /\ stage' = "height"
             /\ exc'.type = "AssertionError"
             /\ UNCHANGED <<cutout, disk, poolvars>>
       /\ (stage' = "height" /\ stage # "height") =>
             (pc = "gebco" /\ log'.tool = "nonzero")]_vars

\* C16 witness: the height step has raised in a call on a prepared cutout;
\* the directory of the earlier run is there with its compound files, none
\* of them written by this call.
C16_Witness ==
    /\ PrepareRaised
    /\ stage = "height"
    /\ log.tool = "nonzero"
    /\ prepared
    /\ dir_exists
    /\ Canonical \subseteq DOMAIN files
    /\ \A n \in DOMAIN files : files[n].stale
    /\ tasks = <<>>

\* the partial files task k writes when its extraction function returns
Outputs(k) ==
    LET items == PrepareFunc(tasks[k].desc, "ok").items
    IN  {tasks[k].datasetfns[items[x][1]] : x \in 1..Len(items)}

\* C17: no task is passed to the executor twice and no more tasks execute
\* at a time than the pool has workers; in the merge stage the tasks are
\* those of the flat task list, and each of them was executed once, in write
\* mode: it has written and traced each of its output groups.
C17_ExactlyOnce ==
    /\ \A k \in TaskIds : tstate[k].calls <= 1
    /\ Cardinality(Running) <= args.nprocesses
    /\ InMerge =>
          LET flat == FlatTasks(weather_data_config, 1, yearmonths)
          IN  /\ Len(tasks) = Len(flat)
              /\ Len(tstate) = Len(flat)
              /\ \A k \in TaskIds :
                    /\ tasks[k].desc = [flat[k] EXCEPT !.keys = @ \cup {"datasetfns"}]
                    /\ tstate[k].calls = 1
                    /\ tstate[k].st = "ok"
                    /\ tstate[k].wrote = Outputs(k)
                    /\ tstate[k].traces = Len(PrepareFunc(flat[k], "ok").items)

\* C17 witness: the merge stage is reached by a call with one worker and
\* several tasks, each of which has written its files.
C17_Witness ==
    /\ InMerge
    /\ pc = "merge"
    /\ args.nprocesses = 1
    /\ Cardinality(TaskIds) >= 2
    /\ \A k \in TaskIds : tstate[k].calls = 1 /\ tstate[k].wrote # {}

\* C18: every series of weather_data_config has the keys it was configured
\* with, tasks_func among them and meta_attrs not; every task of the flat
\* list has the keys the expansion gave it, without ds; and the descriptor
\* the preview passes to cutout_do_task has its keys afterwards.
C18_ConfigNotMutated ==
    /\ \A s \in 1..Len(weather_data_config) :
          /\ weather_data_config[s].keys =
                Series(weather_data_config[s].tasks_func).keys
          /\ "tasks_func" \in weather_data_config[s].keys
          /\ "meta_attrs" \notin weather_data_config[s].keys
    /\ \A k \in TaskIds :
          /\ tasks[k].desc.keys =
                {"prepare_func", "yearmonths", "datasetfns"}
                \cup (IF tasks[k].desc.hasfn THEN {"fn", "engine"} ELSE {})
          /\ "ds" \notin tasks[k].desc.keys
    /\ (op = "preview" /\ Len(PreviewTasks) = 1) =>
          /\ cutout_do_task(PreviewTasks[1], preview.env).task = PreviewTasks[1].keys
          /\ "prepare_func" \in cutout_do_task(PreviewTasks[1], preview.env).task

\* C18 witness: on a cutout that a call of cutout_prepare has prepared, a
\* preview whose task read an input dataset has returned.
C18_Witness ==
    /\ op = "preview"
    /\ pc = "returned"
    /\ prepared
    /\ Len(PreviewTasks) = 1
    /\ PreviewTasks[1].hasfn
    /\ preview.env = "ok"

\* C19: when cutout_prepare has returned, every year-month of the index
\* had a partial file written by a task of this call; in the merge stage a
\* year-month without one is never merged: the merge does not get past it,
\* does not open or write anything for it, and the call does not return.
C19_EveryMonthNeedsPartial ==
    /\ PrepareReturned => \A m \in YearMonths : WrittenPartials(m) # {}
    /\ InMerge =>
          \A m \in YearMonths :
              WrittenPartials(m) = {} =>
                  /\ pc # "returned"
                  /\ month <= m
                  /\ month = m => pc \in {"merge", "raised"}
                  /\ ~Merged(files, m)
                  /\ (pc = "raised" /\ month = m) =>
                        (stage = "merge" /\ exc.type = "IOError")

\* C19 witness: every task has returned, the first year-month is merged,
\* the second has no partial file, and the call has raised in the merge.
C19_Witness ==
    /\ PrepareRaised
    /\ stage = "merge"
    /\ month = 2
    /\ TaskIds # {}
    /\ \A k \in TaskIds : tstate[k].st = "ok"
    /\ Merged(files, 1)
    /\ WrittenPartials(2) = {}
    /\ Glob(files, datasetfn(2)) = {}

====
